---------------------------- MODULE Spec2Model ----------------------------
(***************************************************************************)
(* Silver tracker (src/app.py): the cached spot-price lookup and the       *)
(* inventory valuation pipeline of the Streamlit script.                   *)
(*                                                                         *)
(* The script is re-executed top to bottom on every user interaction, and *)
(* an exception ends the execution at the line that raised it.  Money and *)
(* weights are modelled as integers (dollars, troy ounces); the IEEE      *)
(* specials NaN, +inf and -inf that json, float() and pandas let through  *)
(* are modelled explicitly, because fillna(0) removes only NaN.           *)
(***************************************************************************)
EXTENDS Integers, Sequences, FiniteSets, TLC

VARIABLES
    credential,   \* what st.secrets holds (process configuration)
    now,          \* wall clock, seconds
    cache,        \* the st.cache_data entry of get_silver_price
    call,         \* the most recent call of get_silver_price
    prevRet,      \* the most recent call that returned before `call`
    uploader,     \* the file held by st.file_uploader, or NoFile
    inventory,    \* st.session_state.inventory, or NoInv before the first run
    editor,       \* the session's st.data_editor widgets: the one the last
                  \* run drew and the edit states the session keeps
    spot_price,   \* module-level spot_price of the last run
    edited_df,    \* edited_df at the end of the last run
    display_df,   \* display_df of the last run (NotBuilt when line 261 was
                  \* not reached)
    csv,          \* the bytes behind the download button (NoFile when line
                  \* 293 was not reached)
    totals,       \* total_troy_oz, total_melt, total_paid, pl of the last run
    warning,      \* columns named by st.warning in the last run
    status,       \* how the last run ended
    runs,         \* runs of the script so far in this session
    racing        \* the frames a run can still read in place of the stored
                  \* inventory: a run it replaced is assigning columns into
                  \* the stored frame on its own thread

priceVars == <<credential, now, cache, call, prevRet>>
invVars == <<uploader, inventory, editor, spot_price, edited_df, display_df,
             csv, totals, warning, status, runs>>
vars == <<credential, now, cache, call, prevRet, uploader, inventory, editor,
          spot_price, edited_df, display_df, csv, totals, warning, status,
          runs, racing>>

---------------------------------------------------------------------------
(* Bounds of the model *)

MaxTime == 300
Step == 300
MaxRows == 2
MaxFileRows == 1
\* Runs of the script in one browser session.
MaxRuns == 3

(* Program constants *)

FALLBACK_SPOT == 69
TTL == 300

---------------------------------------------------------------------------
(* Floats, DataFrame cells and CSV fields *)

\* A float: a finite number, NaN (also None / NaT in a cell), +inf or -inf.
Fin(x) == [k |-> "fin", n |-> x, s |-> ""]
NaN == [k |-> "nan", n |-> 0, s |-> ""]
PInf == [k |-> "inf", n |-> 0, s |-> ""]
NInf == [k |-> "ninf", n |-> 0, s |-> ""]
\* A str cell and a datetime.date cell (day number d).
Str(t) == [k |-> "str", n |-> 0, s |-> t]
Date(d) == [k |-> "date", n |-> d, s |-> ""]
\* A CSV field: the decimal text of a number, or any other text.
NumTok(x) == [k |-> "numtxt", n |-> x, s |-> ""]
Txt(t) == [k |-> "txt", n |-> 0, s |-> t]

IsoDay1 == "2024-01-01"
IsoDay0 == "1970-01-01"
IsoDayBefore0 == "1969-12-31"

IsFloat(v) == v.k \in {"fin", "nan", "inf", "ninf"}

\* The sign of a float that is not NaN.
Sign(a) ==
    CASE a.k = "inf" -> 1
      [] a.k = "ninf" -> -1
      [] a.n > 0 -> 1
      [] a.n < 0 -> -1
      [] OTHER -> 0

\* IEEE addition, negation and multiplication.
XAdd(a, b) ==
    CASE a.k = "nan" \/ b.k = "nan" -> NaN
      [] a.k = "fin" /\ b.k = "fin" -> Fin(a.n + b.n)
      [] a.k = "fin" -> b
      [] b.k = "fin" -> a
      [] a.k = b.k -> a
      [] OTHER -> NaN

XNeg(a) ==
    CASE a.k = "fin" -> Fin(0 - a.n)
      [] a.k = "inf" -> NInf
      [] a.k = "ninf" -> PInf
      [] OTHER -> NaN

XMul(a, b) ==
    CASE a.k = "nan" \/ b.k = "nan" -> NaN
      [] a.k = "fin" /\ b.k = "fin" -> Fin(a.n * b.n)
      [] Sign(a) * Sign(b) > 0 -> PInf
      [] Sign(a) * Sign(b) < 0 -> NInf
      [] OTHER -> NaN

\* x <= 0 and x > 0 on a float: both False for NaN.
XLeqZero(a) == (a.k = "fin" /\ a.n <= 0) \/ a.k = "ninf"
XGtZero(a) == (a.k = "fin" /\ a.n > 0) \/ a.k = "inf"

---------------------------------------------------------------------------
(* 2. THE API LOGIC: get_silver_price *)

\* st.secrets: no secrets file at all, a secrets file without (or with an
\* empty) METALS_API_KEY, a secrets file with the key.
Credentials == {"no secrets", "no key", "key"}

\* What float(price) gives for the 'price' the provider may send: a quote,
\* zero, a negative number, and the NaN and Infinity that json.loads and
\* float() accept.
UpstreamPrices == {Fin(25), Fin(0), Fin(-1), NaN, PInf}

\* What the single requests.get of a call can come back with.
Responses ==
    [kind : {"transport_error", "http_error", "bad_json", "not_object",
             "no_price", "price_not_numeric"}, price : {Fin(0)}]
    \cup [kind : {"price"}, price : UpstreamPrices]

\* The undecorated body of get_silver_price.  st.secrets.get parses the
\* secrets files and raises when there is none (line 32, outside the try).
\* Only RequestException is caught (transport errors, raise_for_status,
\* requests' JSONDecodeError); the AttributeError of data.get on a
\* non-object and the ValueError/TypeError of float(price) escape.
get_silver_price(cred, resp) ==
    CASE cred = "no secrets" ->
            [outcome |-> "raise", value |-> Fin(0), requests |-> 0]
      [] cred = "no key" ->
            [outcome |-> "return", value |-> Fin(FALLBACK_SPOT), requests |-> 0]
      [] resp.kind \in {"transport_error", "http_error", "bad_json"} ->
            [outcome |-> "return", value |-> Fin(FALLBACK_SPOT), requests |-> 1]
      [] resp.kind = "not_object" ->
            [outcome |-> "raise", value |-> Fin(0), requests |-> 1]
      [] resp.kind = "no_price" ->
            [outcome |-> "return", value |-> Fin(FALLBACK_SPOT), requests |-> 1]
      [] resp.kind = "price_not_numeric" ->
            [outcome |-> "raise", value |-> Fin(0), requests |-> 1]
      [] OTHER ->
            [outcome |-> "return", value |-> resp.price, requests |-> 1]

\* @st.cache_data(ttl=300): an entry is served while its age is below ttl.
CacheFresh(c, t) == c.valid /\ t - c.storedAt < TTL

NoCache == [valid |-> FALSE, value |-> Fin(0), storedAt |-> 0]
NoCall == [made |-> FALSE, t |-> 0, outcome |-> "none", value |-> Fin(0),
           hit |-> FALSE, requests |-> 0, resp |-> "none"]
NoRet == [has |-> FALSE, t |-> 0, value |-> Fin(0)]

PriceInit ==
    /\ credential \in Credentials
    /\ now = 0
    /\ cache = NoCache
    /\ call = NoCall
    /\ prevRet = NoRet

\* One call of the decorated get_silver_price at time `now`: the new `call`,
\* `cache` and `prevRet`.  An exception is not cached and propagates.
Lookup(resp) ==
    LET r == get_silver_price(credential, resp)
    IN  [prevRet |-> IF call.made /\ call.outcome = "return"
                     THEN [has |-> TRUE, t |-> call.t, value |-> call.value]
                     ELSE prevRet,
         call |-> IF CacheFresh(cache, now)
                  THEN [made |-> TRUE, t |-> now, outcome |-> "return",
                        value |-> cache.value, hit |-> TRUE, requests |-> 0,
                        resp |-> "none"]
                  ELSE [made |-> TRUE, t |-> now, outcome |-> r.outcome,
                        value |-> r.value, hit |-> FALSE,
                        requests |-> r.requests,
                        resp |-> IF r.requests = 0 THEN "none" ELSE resp.kind],
         cache |-> IF ~CacheFresh(cache, now) /\ r.outcome = "return"
                   THEN [valid |-> TRUE, value |-> r.value, storedAt |-> now]
                   ELSE cache]

\* The responses a call at time `now` can meet: a fresh cache entry is
\* served without any request, and so is a call without a key, so there is
\* no response to choose.
Upstream ==
    IF CacheFresh(cache, now) \/ credential # "key"
    THEN {[kind |-> "no_price", price |-> Fin(0)]}
    ELSE Responses

\* The responses the runs of a session are followed with: one for each
\* way the call can end (a price, the fallback, an exception).
SessionUpstream ==
    {r \in Upstream :
        r.kind \in {"price", "no_price", "price_not_numeric"}}

\* A call of get_silver_price on its own (the price oracle in isolation).
CallGetPrice ==
    \E resp \in Upstream :
        /\ call' = Lookup(resp).call
        /\ cache' = Lookup(resp).cache
        /\ prevRet' = Lookup(resp).prevRet
        /\ UNCHANGED <<credential, now>>
        /\ UNCHANGED <<invVars, racing>>

\* Time passes between two reruns of the script; a thread that was still
\* executing a replaced run has come to its end by then.
Tick ==
    /\ now + Step <= MaxTime
    /\ now' = now + Step
    /\ UNCHANGED <<credential, cache, call, prevRet>>
    /\ UNCHANGED invVars
    /\ racing' = {}

---------------------------------------------------------------------------
(* Claims about get_silver_price, checked under SpecPrice *)

\* The upstream outcomes the spec lists as failures of a lookup: everything
\* but a numeric, positive 'price'.
FailedLookup(c) ==
    /\ c.made /\ ~c.hit
    /\ ~(c.resp = "price" /\ XGtZero(c.value) /\ c.outcome = "return")

\* C1: get_silver_price is total: every call returns a positive real
\* number, no exception escapes, and every failure case returns the
\* fallback 69.
C1_TotalPositiveOrFallback ==
    call.made =>
        /\ call.outcome = "return"
        /\ call.value.k = "fin" /\ call.value.n > 0
        /\ (FailedLookup(call) => call.value = Fin(FALLBACK_SPOT))

\* C2: when no credential is configured every call returns the fallback 69
\* and issues no network request.
C2_NoCredentialNoRequest ==
    (credential # "key" /\ call.made) =>
        /\ call.outcome = "return"
        /\ call.value = Fin(FALLBACK_SPOT)
        /\ call.requests = 0

\* C3: a call within 300 s of an earlier call that returned v returns v with
\* no network request; a cache miss makes at most one request; a failure of
\* that request resolves to the fallback.
C3_CachedWithinTtlOfAnyCall ==
    /\ (call.made /\ prevRet.has /\ call.t - prevRet.t < TTL) =>
            /\ call.outcome = "return"
            /\ call.value = prevRet.value
            /\ call.requests = 0
    /\ call.requests <= 1
    /\ (call.made /\ ~call.hit /\ call.resp \notin {"none", "price"}) =>
            /\ call.outcome = "return"
            /\ call.value = Fin(FALLBACK_SPOT)

---------------------------------------------------------------------------
(* Columns and tables *)

DESC == "Description"
WEIGHT == "Weight (troy oz)"
LEGACY == "Weight (ozt)"
ACQ == "Date Acquired"
PAID == "Price Paid ($)"
MODIFIER == "Modifier ($)"
MELT == "Item Melt Value ($)"

\* expected_cols
Canonical == {DESC, WEIGHT, ACQ, PAID, MODIFIER}

\* pd.DataFrame(columns=[...the five canonical columns...])
EmptyCanonical == [cols |-> Canonical, rows |-> <<>>]

\* DataFrame.empty: no rows or no columns.
IsEmpty(df) == df.rows = <<>> \/ df.cols = {}

\* The texts pd.read_csv reads as a missing value (its default na_values).
NaMarkers ==
    {"", "#N/A", "#N/A N/A", "#NA", "-1.#IND", "-1.#QNAN", "-NaN", "-nan",
     "1.#IND", "1.#QNAN", "<NA>", "N/A", "NA", "NULL", "NaN", "None", "n/a",
     "nan", "null"}

\* The spellings of a word whose letters may each be lower or upper case.
RECURSIVE Spellings(_)
Spellings(w) ==
    IF w = <<>> THEN {""}
    ELSE {c \o s : c \in Head(w), s \in Spellings(Tail(w))}

\* The texts pandas reads as an infinity: "inf" and "infinity" in any
\* case, with an optional sign.
InfTexts ==
    Spellings(<<{"i", "I"}, {"n", "N"}, {"f", "F"}>>)
    \cup Spellings(<<{"i", "I"}, {"n", "N"}, {"f", "F"}, {"i", "I"},
                     {"n", "N"}, {"i", "I"}, {"t", "T"}, {"y", "Y"}>>)
PosInfTexts == InfTexts \cup {"+" \o s : s \in InfTexts}
NegInfTexts == {"-" \o s : s \in InfTexts}

\* pd.read_csv on one field: numbers and inf parse as floats, an NA marker
\* is NaN, any other text stays a str.  (read_csv decides the dtype per
\* column; the fields of a numeric column are read again by to_numeric at
\* line 73, field by field, and before that only the column names of the
\* parsed frame are used.)
ParseField(tok) ==
    CASE tok.k = "numtxt" -> Fin(tok.n)
      [] tok.s \in NaMarkers -> NaN
      [] tok.s \in PosInfTexts -> PInf
      [] tok.s \in NegInfTexts -> NInf
      [] OTHER -> Str(tok.s)

\* pd.read_csv(uploaded_file), with the except branch of the import.
read_csv(file) ==
    IF ~file.parsable THEN EmptyCanonical
    ELSE [cols |-> file.cols,
          rows |-> [i \in 1..Len(file.rows) |->
                       [c \in file.cols |-> ParseField(file.rows[i][c])]]]

\* str(datetime.date) of the days of the model: day 1 is the sample
\* date, day 0 the epoch and day -1 the day before it (to_datetime reads
\* a number as nanoseconds since the epoch).
isoformat(n) ==
    CASE n = 1 -> IsoDay1
      [] n = 0 -> IsoDay0
      [] OTHER -> IsoDayBefore0

\* DataFrame.to_csv on one cell: NaN/None/NaT and '' both give an empty
\* field.
FormatCell(v) ==
    CASE v.k = "fin" -> NumTok(v.n)
      [] v.k = "nan" -> Txt("")
      [] v.k = "inf" -> Txt("inf")
      [] v.k = "ninf" -> Txt("-inf")
      [] v.k = "date" -> Txt(isoformat(v.n))
      [] OTHER -> Txt(v.s)

\* csv_df.to_csv(index=False)
to_csv(df) ==
    [present |-> TRUE, parsable |-> TRUE, cols |-> df.cols,
     rows |-> [i \in 1..Len(df.rows) |->
                  [c \in df.cols |-> FormatCell(df.rows[i][c])]]]

\* pd.to_numeric(..., errors="coerce") on one cell.
to_numeric(v) ==
    CASE v.k \in {"fin", "inf", "ninf"} -> v
      [] v.k = "str" /\ v.s \in PosInfTexts -> PInf
      [] v.k = "str" /\ v.s \in NegInfTexts -> NInf
      [] OTHER -> NaN

\* pd.to_datetime(..., errors="coerce").dt.date on one cell.
to_date(v) ==
    CASE v.k = "date" -> v
      [] v.k = "str" /\ v.s = IsoDay1 -> Date(1)
      [] v.k = "str" /\ v.s = IsoDay0 -> Date(0)
      [] v.k = "str" /\ v.s = IsoDayBefore0 -> Date(-1)
      [] v.k = "fin" -> IF v.n < 0 THEN Date(-1) ELSE Date(0)
      [] OTHER -> NaN

\* Series.fillna(0)
fillna0(v) == IF v.k = "nan" THEN Fin(0) ELSE v

NormalizeCell(c, v) ==
    CASE c = ACQ -> to_date(v)
      [] c \in {WEIGHT, LEGACY, PAID, MODIFIER} -> to_numeric(v)
      [] OTHER -> v

_normalize_inventory(df) ==
    [cols |-> df.cols,
     rows |-> [i \in 1..Len(df.rows) |->
                  [c \in df.cols |-> NormalizeCell(c, df.rows[i][c])]]]

\* Series.sum(): NaN cells are skipped, the rest is added up from 0.
RECURSIVE SumFrom(_, _, _, _)
SumFrom(rows, c, i, acc) ==
    IF i > Len(rows) THEN acc
    ELSE IF rows[i][c].k = "nan" THEN SumFrom(rows, c, i + 1, acc)
    ELSE SumFrom(rows, c, i + 1, XAdd(acc, rows[i][c]))

\* edited_df.get(c, pd.Series(dtype="float")).sum()
ColumnSum(df, c) ==
    IF c \in df.cols THEN SumFrom(df.rows, c, 1, Fin(0)) ELSE Fin(0)

\* pd.concat([df, pd.DataFrame([new_row])], ignore_index=True)
Concat(df, row) ==
    LET cs == df.cols \cup DOMAIN row
        Pad(r) == [c \in cs |-> IF c \in DOMAIN r THEN r[c] ELSE NaN]
    IN  [cols |-> cs,
         rows |-> [i \in 1..Len(df.rows) |-> Pad(df.rows[i])] \o <<Pad(row)>>]

---------------------------------------------------------------------------
(* 6. CALCULATION & DASHBOARD, 8. SAVE BUTTON *)

\* edited_df[c] = pd.to_numeric(edited_df[c], errors="coerce").fillna(0)
CoerceColumn(df, col) ==
    [cols |-> df.cols,
     rows |-> [i \in 1..Len(df.rows) |->
                  [c \in df.cols |->
                      IF c = col THEN fillna0(to_numeric(df.rows[i][c]))
                      ELSE df.rows[i][c]]]]

\* edited_df.rename(columns={"Weight (ozt)": "Weight (troy oz)"})
RenameLegacy(df) ==
    LET cs == (df.cols \ {LEGACY}) \cup {WEIGHT}
    IN  [cols |-> cs,
         rows |-> [i \in 1..Len(df.rows) |->
                      [c \in cs |-> IF c = WEIGHT THEN df.rows[i][LEGACY]
                                    ELSE df.rows[i][c]]]]

\* Lines 187-193: the weight column, canonical or legacy.
CoerceWeight(df) ==
    IF WEIGHT \in df.cols THEN CoerceColumn(df, WEIGHT)
    ELSE IF LEGACY \in df.cols THEN CoerceColumn(RenameLegacy(df), WEIGHT)
    ELSE df

\* Lines 195-197.
CoerceMoney(df) ==
    LET a == IF PAID \in df.cols THEN CoerceColumn(df, PAID) ELSE df
    IN  IF MODIFIER \in a.cols THEN CoerceColumn(a, MODIFIER) ELSE a

\* Lines 199-200.
CoerceDates(df) ==
    IF ACQ \in df.cols
    THEN [cols |-> df.cols,
          rows |-> [i \in 1..Len(df.rows) |->
                       [c \in df.cols |-> IF c = ACQ THEN to_date(df.rows[i][c])
                                          ELSE df.rows[i][c]]]]
    ELSE df

\* (weight * spot_price) + modifier.fillna(0)
ItemMelt(w, m, price) == XAdd(XMul(w, price), fillna0(m))

\* edited_df["Item Melt Value ($)"] = ...   (line 211)
WithMelt(df, price) ==
    LET cs == df.cols \cup {MELT}
    IN  [cols |-> cs,
         rows |-> [i \in 1..Len(df.rows) |->
                      [c \in cs |->
                          IF c = MELT
                          THEN ItemMelt(df.rows[i][WEIGHT],
                                        df.rows[i][MODIFIER], price)
                          ELSE df.rows[i][c]]]]

NoTotals == [defined |-> FALSE, weight |-> Fin(0), melt |-> Fin(0),
             paid |-> Fin(0), pl |-> Fin(0)]

\* The value of the one-element set S: a computed frame is handed on as a
\* value, the way the script binds it to a name.
TheOne(S) == CHOOSE x \in S : TRUE

\* Lines 213-215, after the melt column was assigned into e4.
SumUp(e4, total_troy_oz) ==
    IF PAID \notin e4.cols
    THEN [frame |-> e4, totals |-> NoTotals, error |-> "KeyError"]
    ELSE [frame |-> e4,
          totals |-> [defined |-> TRUE, weight |-> total_troy_oz,
                      melt |-> ColumnSum(e4, MELT),
                      paid |-> ColumnSum(e4, PAID),
                      pl |-> XAdd(ColumnSum(e4, MELT),
                                  XNeg(ColumnSum(e4, PAID)))],
          error |-> "none"]

\* Lines 202-215 on the coerced frame e3.
Analyse(e3, total_troy_oz, price) ==
    IF XLeqZero(total_troy_oz)
    THEN [frame |-> e3,
          totals |-> [defined |-> TRUE, weight |-> total_troy_oz,
                      melt |-> Fin(0), paid |-> Fin(0), pl |-> Fin(0)],
          error |-> "none"]
    ELSE IF MODIFIER \notin e3.cols
    THEN [frame |-> e3, totals |-> NoTotals, error |-> "KeyError"]
    ELSE TheOne({SumUp(e4, total_troy_oz) : e4 \in {WithMelt(e3, price)}})

\* Lines 185-215 on the frame the editor returned.  `frame` is edited_df
\* as these lines leave it, `totals` the four totals when they were all
\* assigned, `error` the exception raised by line 211 or 214.
Calculation(e0, price) ==
    IF IsEmpty(e0)
    THEN [frame |-> e0, totals |-> NoTotals, error |-> "none"]
    ELSE TheOne({ TheOne({Analyse(e3, t, price) : t \in {ColumnSum(e3, WEIGHT)}}) :
                  e3 \in {CoerceDates(CoerceMoney(CoerceWeight(e0)))} })

\* A session entry that is given the frame with its footer row.
StoredWithFooter(e0, calc) ==
    IF calc.totals.defined
    THEN Concat(calc.frame,
                [c \in calc.frame.cols \cap {DESC} |-> Str("TOTAL")])
    ELSE calc.frame

\* st.session_state.inventory = edited_df (line 182) binds the session entry
\* to the very object the calculation then assigns columns into; only
\* rename() rebinds edited_df to a new frame and leaves the stored one alone.
StoredAfterRun(e0, calc) ==
    IF ~IsEmpty(e0) /\ WEIGHT \notin e0.cols /\ LEGACY \in e0.cols
    THEN e0 ELSE calc.frame

\* The frames the stored inventory goes through while lines 188-211 assign
\* one column after the other into it, the last one (kept) left out.  With
\* runner.fastReruns the run of the next interaction starts on a new thread
\* while this one is still in these lines, and its line 142 copies the
\* stored frame as it is then.
InFlight(e0, kept) ==
    IF IsEmpty(e0) \/ (WEIGHT \notin e0.cols /\ LEGACY \in e0.cols)
    THEN {}
    ELSE LET a1 == CoerceWeight(e0)
             a2 == IF PAID \in a1.cols THEN CoerceColumn(a1, PAID) ELSE a1
             a3 == CoerceMoney(a1)
             a4 == CoerceDates(a3)
         IN  {e0, a1, a2, a3, a4} \ {kept}

\* Line 238: int(total_grams / 1000) on a float that is not finite.
FunFacts(total_troy_oz) ==
    CASE total_troy_oz.k \in {"inf", "ninf"} -> "OverflowError"
      [] total_troy_oz.k = "nan" -> "ValueError"
      [] OTHER -> "none"

\* totals_row, restricted to the columns of the frame.
TotalsRow(df, t) ==
    [c \in df.cols \cap {DESC, WEIGHT, ACQ, PAID, MODIFIER, MELT} |->
        CASE c = DESC -> Str("TOTAL")
          [] c = WEIGHT -> t.weight
          [] c = PAID -> t.paid
          [] c = MELT -> t.melt
          [] OTHER -> Str("")]

NotBuilt == [shown |-> FALSE, cols |-> {}, rows |-> <<>>]

\* display_df = edited_df.copy() plus the totals row (lines 250-261).
DisplayOf(df, t) ==
    TheOne({[shown |-> TRUE, cols |-> d.cols, rows |-> d.rows] :
              d \in {Concat(df, TotalsRow(df, t))}})

\* Lines 264-285: display_df.style.format(fmt) applies '{:,.2f}'.format to
\* every cell of the four numeric columns when st.write renders the Styler;
\* on a cell that is not a number (the '' of the totals row) it raises.
Render(d) ==
    IF \E i \in 1..Len(d.rows) :
          \E c \in d.cols \cap {WEIGHT, PAID, MODIFIER, MELT} :
              ~IsFloat(d.rows[i][c])
    THEN "ValueError" ELSE "none"

NoFile == [present |-> FALSE, parsable |-> FALSE, cols |-> {}, rows |-> <<>>]

\* csv = csv_df.to_csv(index=False) of a copy of edited_df (lines 289-293);
\* the legacy rename is a no-op here, edited_df was renamed at line 192.
CsvOf(df) == to_csv(df)

\* Lines 217-294 after the calculation: the first exception ends the run.
Dashboard(calc) ==
    IF ~calc.totals.defined
    THEN [display |-> NotBuilt, csv |-> NoFile, error |-> calc.error]
    ELSE IF FunFacts(calc.totals.weight) # "none"
    THEN [display |-> NotBuilt, csv |-> NoFile,
          error |-> FunFacts(calc.totals.weight)]
    ELSE TheOne({ IF Render(d) # "none"
                  THEN [display |-> d, csv |-> NoFile, error |-> Render(d)]
                  ELSE [display |-> d, csv |-> CsvOf(calc.frame),
                        error |-> "none"] :
                  d \in {DisplayOf(calc.frame, calc.totals)} })

---------------------------------------------------------------------------
(* Inputs of a run: the uploaded file, the add form, the data editor *)

\* Rows a user's CSV file may hold (fields as written in the file): a
\* well-formed one, and one with an infinite weight, an NA marker for the
\* date, an unparsable price paid and blanks.
GoodRow ==
    [c \in Canonical |->
        CASE c = DESC -> Txt("Round") [] c = WEIGHT -> NumTok(1)
          [] c = ACQ -> Txt(IsoDay1) [] c = PAID -> NumTok(50)
          [] OTHER -> NumTok(-5)]

BadRow ==
    [c \in Canonical |->
        CASE c = DESC -> Txt("") [] c = WEIGHT -> Txt("inf")
          [] c = ACQ -> Txt("n/a") [] c = PAID -> Txt("abc")
          [] OTHER -> Txt("")]

\* Headers a user's CSV file may have: the canonical five, the five less
\* the modifier column, the legacy weight column in place of the
\* canonical one, or the six columns of edited_df after line 211.
FileColumnSets ==
    {Canonical} \cup {Canonical \ {MODIFIER}}
    \cup {(Canonical \ {WEIGHT}) \cup {LEGACY}}
    \cup {Canonical \cup {MELT}}

\* The rows of the sample file with header cs, in file order.
FileRowSamples(cs) ==
    IF WEIGHT \in cs THEN <<GoodRow, BadRow>> ELSE <<BadRow, GoodRow>>

\* A sample row written under the header cs (a saved melt value is 64).
FileRow(r, cs) ==
    [c \in cs |-> CASE c = LEGACY -> r[WEIGHT]
                    [] c = MELT -> NumTok(64)
                    [] OTHER -> r[c]]

\* The files a user may put in the uploader: the first rows of a sample
\* file, or a file that is not a CSV read_csv can parse.
Files ==
    { [present |-> TRUE, parsable |-> TRUE, cols |-> cs,
       rows |-> [i \in 1..n |-> FileRow(FileRowSamples(cs)[i], cs)]] :
         cs \in FileColumnSets, n \in 1..MaxFileRows }
    \cup {[present |-> TRUE, parsable |-> FALSE, cols |-> {}, rows |-> <<>>]}

\* new_row of the add form: weight and price paid are >= 0 (min_value=0.0).
FormRows ==
    { [c \in Canonical |->
          CASE c = DESC -> Str("Round") [] c = WEIGHT -> Fin(w)
            [] c = ACQ -> Date(1) [] c = PAID -> Fin(50)
            [] OTHER -> Fin(-5)] : w \in {2} }

\* Values a user may type into a cell of the data editor.
EditorValues(c) ==
    CASE c = WEIGHT -> {Fin(0)}
      [] OTHER -> {}

NoEdit == [kind |-> "none", i |-> 0, c |-> "", v |-> NaN]

\* The edits the user can make to the frame df the editor shows, one per
\* rerun.
Edits(df) ==
    UNION { { [kind |-> "cell", i |-> i, c |-> c, v |-> v] :
                  v \in EditorValues(c) } :
            i \in 1..Len(df.rows), c \in df.cols }
    \cup { [kind |-> "delete", i |-> i, c |-> "", v |-> NaN] : i \in 1..Len(df.rows) }
    \cup { [kind |-> "add", i |-> 0, c |-> "", v |-> NaN] }

\* The frame the editor shows after the user made edit e in it.
ApplyEdit(df, e) ==
    CASE e.kind = "cell" ->
            [cols |-> df.cols,
             rows |-> [i \in 1..Len(df.rows) |->
                          [c \in df.cols |->
                              IF i = e.i /\ c = e.c THEN e.v
                              ELSE df.rows[i][c]]]]
      [] e.kind = "delete" ->
            [cols |-> df.cols,
             rows |-> [i \in 1..(Len(df.rows) - 1) |->
                          IF i < e.i THEN df.rows[i] ELSE df.rows[i + 1]]]
      [] e.kind = "add" ->
            [cols |-> df.cols,
             rows |-> df.rows \o <<[c \in df.cols |-> NaN]>>]
      [] OTHER -> df

\* The widget state of the session: whether the last run drew a data
\* editor and for which input, and the edit state the session keeps, one
\* entry per widget that has edits (its input and that input with the
\* edits applied).
NoEditor == [shown |-> FALSE, input |-> EmptyCanonical, states |-> {}]

\* The frame the widget created for the input df holds under the kept
\* edit states: df with the edits kept for it, df itself when there are
\* none.
OutputOf(states, df) ==
    IF \E w \in states : w.input = df
    THEN (CHOOSE w \in states : w.input = df).output
    ELSE df

\* The rerun request of an interaction carries the widget states of the
\* browser: edit e, made in the editor the last run drew, is added to the
\* edit state of that widget.
on_script_will_rerun(widgets, e) ==
    IF e.kind = "none" \/ ~widgets.shown
    THEN widgets.states
    ELSE {w \in widgets.states : w.input # widgets.input}
         \cup {[input |-> widgets.input,
                output |-> ApplyEdit(OutputOf(widgets.states, widgets.input),
                                     e)]}

\* st.data_editor(df, num_rows="dynamic") without a key: the widget's
\* identity is derived from its arguments and its input data.  It returns
\* a new frame, df with the edits the session keeps for that identity;
\* an edit made in a widget of another identity is not in it.
data_editor(df, states) == OutputOf(states, df)

\* The end of a run.  A run that ended without an exception discards the
\* state of every widget it did not create; a run an exception ended
\* discards nothing.
on_script_finished(states, df, error) ==
    IF error = "none" THEN {w \in states : w.input = df} ELSE states

---------------------------------------------------------------------------
(* 4. INITIALIZE DATA and the script as a whole *)

NoInv == [exists |-> FALSE, cols |-> {}, rows |-> <<>>]

Frame(x) == [cols |-> x.cols, rows |-> x.rows]

\* Lines 112-142: the frame the session holds before the form and the
\* editor, and the columns the warning names.
Initialize(u, inv) ==
    IF u.present
    THEN LET df == read_csv(u)
         IN  [inv |-> _normalize_inventory(_normalize_inventory(df)),
              missing |-> Canonical \ df.cols]
    ELSE [inv |-> _normalize_inventory(
                      IF inv.exists THEN Frame(inv) ELSE EmptyCanonical),
          missing |-> {}]

InvInit ==
    /\ uploader = NoFile
    /\ inventory = NoInv
    /\ editor = NoEditor
    /\ spot_price = Fin(0)
    /\ edited_df = EmptyCanonical
    /\ display_df = NotBuilt
    /\ csv = NoFile
    /\ totals = NoTotals
    /\ warning = {}
    /\ status = "not run"
    /\ runs = 0
    /\ racing = {}

\* The st.* calls at which a run can be stopped with a different state of
\* the session: the script runner stops a run at its next st.* call when
\* the browser asks for another run.  Line 82 is after the price lookup
\* and before the import is stored, 145 after line 142, 167 after the add
\* form and before line 182, 217 after the calculation (line 296 for an
\* empty table; a stop at line 204 leaves the same session state).  There
\* is no such call in lines 185-215 and none in requests.get: a run that
\* is replaced there goes on, next to the new run, to line 204 or 217 or
\* to the exception of line 211 or 214 (stop "217"), or to line 82 with
\* the cache entry written (stop "82").
StopPoints == {"82", "145", "167", "217"}
NoStop == "none"

\* What a run leaves of its tables when it ended before line 182.
NoTables ==
    /\ edited_df' = EmptyCanonical
    /\ display_df' = NotBuilt
    /\ csv' = NoFile
    /\ totals' = NoTotals

\* st.session_state.inventory as line 142 can read it.  With a file in the
\* uploader line 134 has stored the file's frame before.
Observed(u) ==
    IF u.present THEN {inventory}
    ELSE {inventory}
         \cup {[exists |-> TRUE, cols |-> r.cols, rows |-> r.rows] :
                  r \in racing}

\* One execution of the script with file u in the uploader, the add form
\* submitted with `row` when add holds, and edit e made in the data editor,
\* stopped at the st.* call of line `stop` or run to its end (NoStop).
\* status' names the exception that ended the run, "stopped", or "ok".  A
\* stopped run, like one an exception ended, discards no widget state and
\* draws no new editor before line 169.  Without a file, line 142 reads
\* the stored frame, or one of the frames `racing` when the run before is
\* still assigning columns into it.  A session is followed for MaxRuns
\* runs.
Run(u, add, row, e, resp, stop) ==
    /\ runs < MaxRuns
    /\ \E look \in {Lookup(resp)} :
       \E sent \in {on_script_will_rerun(editor, e)} :
       \E seen \in Observed(u) :
       \E init \in {Initialize(u, seen)} :
       \E given \in {IF add THEN Concat(init.inv, row) ELSE init.inv} :
       /\ runs' = runs + 1
       /\ call' = look.call
       /\ cache' = look.cache
       /\ prevRet' = look.prevRet
       /\ UNCHANGED <<credential, now>>
       /\ uploader' = u
       /\ \A w \in sent : Len(w.output.rows) <= MaxRows
       /\ CASE look.call.outcome = "raise" ->
               \* line 79 raised: the run ends before any widget is created,
               \* and the edit states of the session stay as the browser
               \* sent them
               /\ stop = NoStop
               /\ status' = "price error"
               /\ UNCHANGED <<inventory, spot_price>>
               /\ editor' = [shown |-> FALSE, input |-> EmptyCanonical,
                             states |-> sent]
               /\ NoTables
               /\ warning' = {}
               /\ racing' = racing
            [] stop \in {"82", "145", "167"} /\ look.call.outcome # "raise" ->
               /\ status' = "stopped"
               /\ spot_price' = look.call.value
               /\ Len(given.rows) <= MaxRows
               /\ inventory' =
                     CASE stop = "82" -> inventory
                       [] stop = "145" -> [exists |-> TRUE, cols |-> init.inv.cols,
                                         rows |-> init.inv.rows]
                       [] OTHER -> [exists |-> TRUE, cols |-> given.cols,
                                    rows |-> given.rows]
               /\ editor' = [editor EXCEPT !.states = sent]
               /\ NoTables
               /\ warning' = IF stop = "82" THEN {} ELSE init.missing
               /\ racing' = IF stop = "82" THEN racing ELSE {}
            [] OTHER ->
               \E e0 \in {data_editor(given, sent)} :
               \E calc \in {Calculation(e0, look.call.value)} :
               \E kept \in {StoredAfterRun(e0, calc)} :
               \E dash \in {Dashboard(calc)} :
               \E left \in {IF stop = "217" THEN sent
                            ELSE on_script_finished(sent, given, dash.error)} :
                   /\ Len(e0.rows) <= MaxRows
                   /\ spot_price' = look.call.value
                   /\ editor' = [shown |-> TRUE, input |-> given, states |-> left]
                   /\ inventory' = [exists |-> TRUE, cols |-> kept.cols,
                                    rows |-> kept.rows]
                   /\ edited_df' = calc.frame
                   /\ display_df' = IF stop = "217" THEN NotBuilt ELSE dash.display
                   /\ csv' = IF stop = "217" THEN NoFile ELSE dash.csv
                   /\ totals' = calc.totals
                   /\ warning' = init.missing
                   /\ racing' = IF stop = "217" THEN InFlight(e0, kept)
                                ELSE {}
                   /\ status' = CASE stop = "217" -> "stopped at 217"
                                   [] dash.error = "none" -> "ok"
                                   [] OTHER -> dash.error

\* How an interaction's run can end: at a stop point or at its own end.
Ends == StopPoints \cup {NoStop}

\* Any interaction that changes none of the three inputs.
Rerun ==
    \E resp \in SessionUpstream, stop \in Ends :
        Run(uploader, FALSE, <<>>, NoEdit, resp, stop)

\* The user picks a file in the uploader.
Upload ==
    \E f \in Files, resp \in SessionUpstream, stop \in Ends :
        Run(f, FALSE, <<>>, NoEdit, resp, stop)

\* The user removes the file from the uploader.
ClearUpload ==
    /\ uploader.present
    /\ \E resp \in SessionUpstream, stop \in Ends :
           Run(NoFile, FALSE, <<>>, NoEdit, resp, stop)

\* The user submits the add form.
AddItem ==
    \E row \in FormRows, resp \in SessionUpstream, stop \in Ends :
        Run(uploader, TRUE, row, NoEdit, resp, stop)

\* The user edits a cell, deletes a row or adds a row in the table the
\* data editor shows.
EditTable ==
    /\ editor.shown
    /\ \E e \in Edits(OutputOf(editor.states, editor.input)),
          resp \in SessionUpstream, stop \in Ends :
           Run(uploader, FALSE, <<>>, e, resp, stop)

Init == PriceInit /\ InvInit

\* A session of a deployment that has its API key.  Without a key every
\* lookup yields the fallback, which a failed request yields here too;
\* without a secrets file every run ends at line 79.
InitSession == Init /\ credential = "key"

\* A session: interactions, each followed by a run of the script, and the
\* time that passes between them (a cache entry expires after TTL).
Next == Rerun \/ Upload \/ ClearUpload \/ AddItem \/ EditTable \/ Tick

Spec == InitSession /\ [][Next]_vars

NextPrice == CallGetPrice \/ Tick

SpecPrice == Init /\ [][NextPrice]_vars

---------------------------------------------------------------------------
(* Claims about the inventory pipeline, checked under Spec *)

\* The cells of column c, top to bottom.
Column(df, c) == [i \in 1..Len(df.rows) |-> df.rows[i][c]]

\* The sum of a sequence of floats.
RECURSIVE Total(_)
Total(cells) ==
    IF cells = <<>> THEN Fin(0)
    ELSE XAdd(Total(SubSeq(cells, 1, Len(cells) - 1)), cells[Len(cells)])

AllFinite(df, cs) ==
    \A i \in 1..Len(df.rows) : \A c \in cs \cap df.cols : df.rows[i][c].k = "fin"

\* The last run went through line 182 (the price lookup did not raise).
Stored == status \notin {"not run", "price error", "stopped"}

\* The rows of df in the order q.
Permuted(df, q) ==
    [cols |-> df.cols, rows |-> [i \in 1..Len(df.rows) |-> df.rows[q[i]]]]

\* What the spec's valuation gives for the table and the price of the last
\* run: melt = weight * price + modifier in every row, the totals are the
\* sums over the rows, profit/loss is total melt minus total paid, and
\* every order of the rows gives the same.
Valuation ==
    /\ {WEIGHT, PAID, MODIFIER, MELT} \subseteq edited_df.cols
    /\ \A i \in 1..Len(edited_df.rows) :
          LET r == edited_df.rows[i]
          IN  r[MELT] = XAdd(XMul(r[WEIGHT], spot_price), r[MODIFIER])
    /\ totals.weight = Total(Column(edited_df, WEIGHT))
    /\ totals.melt = Total(Column(edited_df, MELT))
    /\ totals.paid = Total(Column(edited_df, PAID))
    /\ totals.pl = XAdd(totals.melt, XNeg(totals.paid))
    /\ \A q \in Permutations(1..Len(edited_df.rows)) :
          LET again == Calculation(Permuted(edited_df, q), spot_price)
          IN  /\ again.totals = totals
              /\ \A i \in 1..Len(edited_df.rows) :
                    again.frame.rows[i][MELT] = edited_df.rows[q[i]][MELT]

\* C4: for every inventory (rows of finite numbers) of total weight > 0 and
\* every price the lookup hands over, every row's melt value is
\* weight * price + modifier, the totals are the sums over the rows,
\* profit/loss is total melt minus total paid, and the result is the same
\* for every order of the rows.
C4_ValuationFormula ==
    (/\ totals.defined /\ XGtZero(totals.weight)
     /\ AllFinite(edited_df, {WEIGHT, PAID, MODIFIER})) => Valuation

\* The same for the finite prices only (positive, zero or negative).
ValuationAtFinitePrices ==
    spot_price.k = "fin" => C4_ValuationFormula

\* No row of the table (or of the CSV file) carries a per-item melt value.
NoMeltValues(t) ==
    MELT \in t.cols =>
        \A i \in 1..Len(t.rows) :
            t.rows[i][MELT] \in {NaN, Txt(""), Str("")}

\* C5: whenever the total weight is <= 0 the totals are all 0 and no
\* per-item melt value is in the evaluated table, its display or its export.
C5_NoMeltValuesWithoutWeight ==
    (totals.defined /\ XLeqZero(totals.weight)) =>
        /\ totals.melt = Fin(0) /\ totals.paid = Fin(0) /\ totals.pl = Fin(0)
        /\ NoMeltValues(edited_df)
        /\ \A i \in 1..Len(edited_df.rows) :
              MELT \in display_df.cols => display_df.rows[i][MELT] = NaN
        /\ NoMeltValues(csv)

\* C6: every weight, price paid and modifier the valuation reads is a finite
\* number (malformed, blank and missing cells count as 0), also when the
\* weight came under the legacy column name.
C6_NumericFieldsFinite ==
    (Stored /\ ~IsEmpty(edited_df)) =>
        /\ AllFinite(edited_df, {WEIGHT, PAID, MODIFIER})
        /\ totals.defined =>
              totals.weight.k = "fin" /\ totals.paid.k = "fin"

\* C7: import and valuation never fail, whatever canonical columns the
\* table lacks: the warning names exactly the absent canonical columns and
\* the run ends without an error (checked for tables of finite numbers).
C7_ImportAndValuationNeverFail ==
    /\ AllFinite(edited_df, {WEIGHT, PAID, MODIFIER}) =>
            status \notin {"KeyError", "OverflowError", "ValueError"}
    /\ (Stored /\ uploader.present /\ uploader.parsable) =>
            warning = Canonical \ uploader.cols

\* C8: an inventory (five canonical columns, finite numbers) can be
\* exported, and importing the exported CSV gives back the exported
\* inventory: the same rows in the same order, the five canonical columns
\* and no others, the same values.
C8_ExportImportRoundTrip ==
    (/\ Stored /\ status # "stopped at 217"
     /\ ~IsEmpty(edited_df) /\ Canonical \subseteq edited_df.cols
     /\ AllFinite(edited_df, {WEIGHT, PAID, MODIFIER})) =>
        /\ csv.present
        /\ LET back == _normalize_inventory(read_csv(csv))
           IN  /\ back.cols = Canonical
               /\ Len(back.rows) = Len(edited_df.rows)
               /\ \A i \in 1..Len(back.rows) : \A c \in Canonical :
                     back.rows[i][c] = edited_df.rows[i][c]

IsTotalRow(r) ==
    DESC \in DOMAIN r /\ r[DESC].s = "TOTAL"

\* The sum of a column the way Series.sum() adds it up, NaN cells left out.
RECURSIVE SumCells(_)
SumCells(cells) ==
    IF cells = <<>> THEN Fin(0)
    ELSE LET rest == SumCells(SubSeq(cells, 1, Len(cells) - 1))
             last == cells[Len(cells)]
         IN  IF last.k = "nan" THEN rest ELSE XAdd(rest, last)

\* C9: the TOTAL row exists only in the display copy: never in the stored
\* inventory, the evaluated table or the export, and the totals are sums
\* over the item rows alone.
C9_TotalRowOnlyDisplayed ==
    /\ \A i \in 1..Len(inventory.rows) : ~IsTotalRow(inventory.rows[i])
    /\ \A i \in 1..Len(edited_df.rows) : ~IsTotalRow(edited_df.rows[i])
    /\ \A i \in 1..Len(csv.rows) : ~IsTotalRow(csv.rows[i])
    /\ csv.present => Len(csv.rows) = Len(inventory.rows)
    /\ display_df.shown =>
          /\ Len(display_df.rows) = Len(edited_df.rows) + 1
          /\ \A i \in 1..Len(edited_df.rows) :
                display_df.rows[i] = edited_df.rows[i]
          /\ DESC \in display_df.cols =>
                IsTotalRow(display_df.rows[Len(display_df.rows)])
    /\ Stored => Len(edited_df.rows) = Len(inventory.rows)
    /\ totals.defined =>
          /\ totals.weight =
                IF WEIGHT \in edited_df.cols
                THEN SumCells(Column(edited_df, WEIGHT)) ELSE Fin(0)
          /\ ~XLeqZero(totals.weight) =>
                /\ totals.melt = SumCells(Column(edited_df, MELT))
                /\ totals.paid = SumCells(Column(edited_df, PAID))

\* A second run over two stored rows of weight 1 and 2: the display copy
\* has three rows, the last one the TOTAL row, the stored inventory has two,
\* and the weights add up to 3.
C9_Witness ==
    /\ totals.defined /\ display_df.shown /\ call.hit
    /\ Len(inventory.rows) = 2 /\ Len(edited_df.rows) = 2
    /\ Len(display_df.rows) = 3
    /\ IsTotalRow(display_df.rows[3])
    /\ totals.weight = Fin(3)

\* A row's canonical cells as the valuation reads them (blank numbers as 0).
ItemOf(r, cs) ==
    [c \in cs |-> IF c \in {WEIGHT, PAID, MODIFIER} THEN fillna0(to_numeric(r[c]))
                  ELSE r[c]]

Items(inv, cs) == [i \in 1..Len(inv.rows) |-> ItemOf(inv.rows[i], cs)]

\* The last run, if any, was not cut short: it reached the end of the
\* script or an exception after line 182.
Finished == status \notin {"price error", "stopped", "stopped at 217"}

\* A submit of the add form, and a plain rerun, each run to its end after
\* a run that was not stopped, in a session whose price lookup does not
\* raise.
AddedOk(row) ==
    /\ Finished
    /\ \E resp \in SessionUpstream : Run(uploader, TRUE, row, NoEdit, resp, NoStop)
    /\ status' # "price error"

RerunOk ==
    /\ Finished
    /\ \E resp \in SessionUpstream : Run(uploader, FALSE, <<>>, NoEdit, resp, NoStop)
    /\ status' # "price error"

\* C10: a manual add appends one row at the end of the stored inventory and
\* leaves the existing rows as they are, and a rerun that neither edits nor
\* imports keeps every stored row, also while a file is in the uploader.
C10_AddedRowPersists ==
    [][ LET cs == Canonical \cap inventory.cols
        IN  /\ \A row \in FormRows :
                 AddedOk(row) =>
                    /\ Len(inventory'.rows) = Len(inventory.rows) + 1
                    /\ cs \subseteq inventory'.cols
                    /\ SubSeq(Items(inventory', cs), 1, Len(inventory.rows))
                          = Items(inventory, cs)
            /\ RerunOk =>
                    /\ cs \subseteq inventory'.cols
                    /\ Items(inventory', cs) = Items(inventory, cs)
      ]_vars
=============================================================================
